---- MODULE Spec2Model ----
(***************************************************************************)
(* Model of the subtitle-slot core of scripts/auto_srt/pipeline.py:        *)
(* clean_text, word_tokenize, allocate_words_by_overlaps, build_slots,     *)
(* build_srt_slots_from_segments and seconds_to_srt.                       *)
(*                                                                         *)
(* Numbers.  The code computes on binary floats; the model computes on     *)
(* exact integers in a fixed unit.  In the slot pipeline one unit is half  *)
(* a microsecond, so the literal 1e-6 of the code is EPS == 2 and a        *)
(* sub-epsilon length (1 unit) exists.  In seconds_to_srt one unit is a    *)
(* tenth of a millisecond (TicksPerSec units per second).  Python's      *)
(* round() rounds an exact half to even, but the float products and        *)
(* differences the code rounds can land on either side of an exact half,   *)
(* so at an exact half the model admits both neighbours (operator round).  *)
(*                                                                         *)
(* Text.  A string is a sequence of one-character strings; a token is a    *)
(* non-empty string without whitespace; None is the empty sequence and a   *)
(* present timestamp v is <<v>>.                                           *)
(***************************************************************************)
EXTENDS Integers, Sequences, FiniteSets, Bags, TLC

VARIABLES
    pc,                 \* position in build_srt_slots_from_segments
    audio_duration_sec, \* parameter
    slot_sec,           \* parameter
    seg_end_pad_sec,    \* parameter
    slots,              \* the slot list (build_slots' and the assigner's)
    t,                  \* build_slots' loop variable
    untimed_texts,      \* the untimed side buffer
    seg,                \* the fragment of the current loop iteration
    nsegs,              \* how many fragments the loop has consumed
    fed,                \* history: bag of the tokens of all consumed fragments
    slot_indices,       \* range(i0, i1 + 1) of the current fragment
    apc,                \* position in allocate_words_by_overlaps
    words,              \* allocate's argument
    overlaps,           \* allocate's argument
    targets,            \* allocate's target counts
    diff,               \* allocate's remaining difference
    idx,                \* allocate's visit counter
    out,                \* allocate's result
    upc,                \* position of the utility call (clean_text / seconds_to_srt)
    text,               \* clean_text's argument
    cleaned,            \* clean_text's result
    ts,                 \* seconds_to_srt's argument
    srt                 \* seconds_to_srt's result, as its four fields

vars == <<pc, audio_duration_sec, slot_sec, seg_end_pad_sec, slots, t,
          untimed_texts, seg, nsegs, fed, slot_indices, apc, words, overlaps,
          targets, diff, idx, out, upc, text, cleaned, ts, srt>>

pipeVars == <<pc, audio_duration_sec, slot_sec, seg_end_pad_sec, slots, t,
              untimed_texts, seg, nsegs, fed, slot_indices>>
allocVars == <<apc, words, overlaps, targets, diff, idx, out>>
utilVars == <<upc, text, cleaned, ts, srt>>

----------------------------------------------------------------------------
(* Bounds of the model *)

MaxLen == 4          \* longest input string of clean_text
MaxWords == 4        \* longest token list handed to allocate directly
MaxN == 3            \* longest weight list handed to allocate directly
MaxWeight == 2       \* largest weight handed to allocate directly
MaxDur == 9          \* largest audio duration (half microseconds)
MaxSlotLen == 4      \* largest slot length (half microseconds)
MaxPad == 3          \* largest end padding (half microseconds)
MaxTime == 10        \* largest fragment timestamp (half microseconds)
MaxSegs == 2         \* most fragments in one run
MaxSlots == 10       \* cap on build_slots' loop (it has none of its own)
MaxIdx == 12         \* cap on allocate's visit counter (it has none of its own)
MaxHours == 2        \* largest hour count handed to seconds_to_srt

(* Program constants *)

EPS == 2             \* the code's 1e-6 s, in half microseconds

None == <<>>
Some(v) == <<v>>

Min(a, b) == IF a <= b THEN a ELSE b
Max(a, b) == IF a >= b THEN a ELSE b

----------------------------------------------------------------------------
(* Strings *)

Whitespace == {" ", "\t"}
Punctuation == {",", ".", "!", "?"}

\* str.strip(): drop leading and trailing whitespace
RECURSIVE lstrip(_)
lstrip(s) ==
    IF s = <<>> THEN <<>>
    ELSE IF Head(s) \in Whitespace THEN lstrip(Tail(s)) ELSE s

RECURSIVE rstrip(_)
rstrip(s) ==
    IF s = <<>> THEN <<>>
    ELSE IF s[Len(s)] \in Whitespace THEN rstrip(SubSeq(s, 1, Len(s) - 1)) ELSE s

strip(s) == rstrip(lstrip(s))

\* re.sub(r"\s+", " ", s): every maximal whitespace run becomes one space
RECURSIVE collapse_ws(_)
collapse_ws(s) ==
    IF s = <<>> THEN <<>>
    ELSE IF Head(s) \in Whitespace
         THEN <<" ">> \o collapse_ws(lstrip(s))
         ELSE <<Head(s)>> \o collapse_ws(Tail(s))

\* re.sub(r"\s+([,.!?])", r"\1", s): a whitespace run directly before one of
\* the four marks is removed; any other run is kept as it is
RECURSIVE drop_ws_before_punct(_)
drop_ws_before_punct(s) ==
    IF s = <<>> THEN <<>>
    ELSE IF Head(s) \in Whitespace
         THEN LET rest == lstrip(s)
                  run == SubSeq(s, 1, Len(s) - Len(rest))
              IN IF rest # <<>> /\ Head(rest) \in Punctuation
                 THEN drop_ws_before_punct(rest)
                 ELSE run \o drop_ws_before_punct(rest)
         ELSE <<Head(s)>> \o drop_ws_before_punct(Tail(s))

\* A plausible bug: the mark's whitespace is removed first, and one character
\* of it only, before the runs are collapsed.
RECURSIVE drop_one_ws_before_punct(_)
drop_one_ws_before_punct(s) ==
    IF Len(s) < 2 THEN s
    ELSE IF s[1] \in Whitespace /\ s[2] \in Punctuation
         THEN drop_one_ws_before_punct(Tail(s))
         ELSE <<Head(s)>> \o drop_one_ws_before_punct(Tail(s))

clean_text_one_ws(s) == collapse_ws(drop_one_ws_before_punct(strip(s)))

clean_text(s) == drop_ws_before_punct(collapse_ws(strip(s)))

\* re.findall(r"\S+", s.strip()): the maximal runs of non-whitespace
RECURSIVE word_tokenize_from(_, _)
word_tokenize_from(s, cur) ==
    IF s = <<>> THEN (IF cur = <<>> THEN <<>> ELSE <<cur>>)
    ELSE IF Head(s) \in Whitespace
         THEN (IF cur = <<>> THEN <<>> ELSE <<cur>>) \o word_tokenize_from(Tail(s), <<>>)
         ELSE word_tokenize_from(Tail(s), Append(cur, Head(s)))

word_tokenize(s) == word_tokenize_from(strip(s), <<>>)

\* " ".join(chunk)
RECURSIVE join(_)
join(chunk) ==
    IF chunk = <<>> THEN <<>>
    ELSE IF Len(chunk) = 1 THEN chunk[1]
    ELSE chunk[1] \o <<" ">> \o join(Tail(chunk))

----------------------------------------------------------------------------
(* allocate_words_by_overlaps *)

RECURSIVE sum(_)
sum(s) == IF s = <<>> THEN 0 ELSE Head(s) + sum(Tail(s))

\* int(round(num / den)) for num >= 0, den > 0: the set of results the float
\* computation can give (one value, or both neighbours of an exact half)
round(num, den) ==
    LET q == num \div den
        r == num % den
    IN IF 2 * r < den THEN {q}
       ELSE IF 2 * r > den THEN {q + 1}
       ELSE {q, q + 1}

\* sorted(range(n), key=lambda i: overlaps[i], reverse=True): descending
\* weight, equal weights in index order (the sort is stable); 1-based here
RECURSIVE order_from(_, _)
order_from(ov, left) ==
    IF left = {} THEN <<>>
    ELSE LET best == CHOOSE i \in left :
                        \A j \in left : ov[i] > ov[j] \/ (ov[i] = ov[j] /\ i <= j)
         IN <<best>> \o order_from(ov, left \ {best})

order(ov) == order_from(ov, 1..Len(ov))

\* words[a:b] with Python's slice rules (negative bounds count from the end,
\* bounds are clamped, an empty range gives [])
py_index(n, i) == IF i < 0 THEN Max(n + i, 0) ELSE Min(i, n)
py_slice(s, a, b) == SubSeq(s, py_index(Len(s), a) + 1, py_index(Len(s), b))

\* The slicing loop: chunk i takes targets[i] words from pos, the last chunk
\* takes words[pos:]
RECURSIVE slice_from(_, _, _, _)
slice_from(w, tg, i, pos) ==
    IF i > Len(tg) THEN <<>>
    ELSE IF i = Len(tg) THEN <<py_slice(w, pos, Len(w))>>
    ELSE <<py_slice(w, pos, pos + tg[i])>> \o slice_from(w, tg, i + 1, pos + tg[i])

\* A plausible bug: pos is not advanced
RECURSIVE slice_no_advance_from(_, _, _)
slice_no_advance_from(w, tg, i) ==
    IF i > Len(tg) THEN <<>>
    ELSE IF i = Len(tg) THEN <<py_slice(w, 0, Len(w))>>
    ELSE <<py_slice(w, 0, tg[i])>> \o slice_no_advance_from(w, tg, i + 1)

slice_no_advance(w, tg) == slice_no_advance_from(w, tg, 1)

slice_chunks(w, tg) == slice_from(w, tg, 1, 0)

\* [[] for _ in range(n)]
empty_chunks(n) == [i \in 1..n |-> <<>>]

\* [int(round(len(words) * (ov / total))) for ov in overlaps]: the target
\* lists the rounding can give, one rounded share per weight
RECURSIVE rounded_shares(_, _, _)
rounded_shares(n, ov, total) ==
    IF ov = <<>> THEN {<<>>}
    ELSE {<<share>> \o rest : share \in round(n * Head(ov), total),
                              rest \in rounded_shares(n, Tail(ov), total)}

initial_targets(w, ov) == rounded_shares(Len(w), ov, sum(ov))

\* The removing branch of the adjustment loop: may slot i give one back?
\* A plausible bug: a slot keeps its last word
can_remove_above_one(tg, i) == tg[i] > 1

can_remove(tg, i) == tg[i] > 0

\* diff = len(words) - sum(targets)
\* A plausible bug: the adjustment is left out
alloc_diff_none(w, tg) == 0

alloc_diff(w, tg) == Len(w) - sum(tg)

\* Lines 59-77: the early returns, then the targets, diff and idx
AllocEnter ==
    /\ apc = "enter"
    /\ LET n == Len(overlaps) IN
       IF n = 0
       THEN /\ out' = <<>>
            /\ apc' = "return"
            /\ UNCHANGED <<targets, diff, idx>>
       ELSE IF words = <<>>
       THEN /\ out' = empty_chunks(n)
            /\ apc' = "return"
            /\ UNCHANGED <<targets, diff, idx>>
       ELSE IF sum(overlaps) <= 0
       THEN /\ out' = [empty_chunks(n) EXCEPT ![n] = words]
            /\ apc' = "return"
            /\ UNCHANGED <<targets, diff, idx>>
       ELSE /\ \E tg \in initial_targets(words, overlaps) :
                 /\ targets' = tg
                 /\ diff' = alloc_diff(words, tg)
            /\ idx' = 0
            /\ apc' = "adjust"
            /\ out' = <<>>
    /\ UNCHANGED <<words, overlaps>>

\* Lines 78-87: one iteration of the adjustment loop
AllocAdjust ==
    /\ apc = "adjust"
    /\ diff # 0
    /\ idx < MaxIdx
    /\ LET n == Len(overlaps)
           i == order(overlaps)[(idx % n) + 1]
       IN IF diff > 0
          THEN /\ targets' = [targets EXCEPT ![i] = @ + 1]
               /\ diff' = diff - 1
          ELSE IF can_remove(targets, i)
               THEN /\ targets' = [targets EXCEPT ![i] = @ - 1]
                    /\ diff' = diff + 1
               ELSE UNCHANGED <<targets, diff>>
    /\ idx' = idx + 1
    /\ UNCHANGED <<apc, words, overlaps, out>>

\* Lines 89-101: the loop has ended; slice and return
AllocSlice ==
    /\ apc = "adjust"
    /\ diff = 0
    /\ out' = slice_chunks(words, targets)
    /\ apc' = "return"
    /\ UNCHANGED <<words, overlaps, targets, diff, idx>>

NextAlloc ==
    \/ AllocEnter /\ UNCHANGED <<pipeVars, utilVars>>
    \/ AllocAdjust /\ UNCHANGED <<pipeVars, utilVars>>
    \/ AllocSlice /\ UNCHANGED <<pipeVars, utilVars>>

\* The tokens the model hands to allocate: distinct, so that a loss, a
\* duplicate or a swap shows
Vocabulary == << <<"a">>, <<"b", ",">>, <<"c">>, <<"d">>, <<"e">>, <<"f">> >>
TokenLists == {SubSeq(Vocabulary, 1, k) : k \in 0..Min(MaxWords, Len(Vocabulary))}
WeightLists == UNION {[1..n -> 0..MaxWeight] : n \in 0..MaxN}

IdlePipe ==
    /\ pc = "idle"
    /\ audio_duration_sec = 0
    /\ slot_sec = 0
    /\ seg_end_pad_sec = 0
    /\ slots = <<>>
    /\ t = 0
    /\ untimed_texts = <<>>
    /\ seg = [timestamp |-> None, text |-> <<>>]
    /\ nsegs = 0
    /\ fed = EmptyBag
    /\ slot_indices = <<>>

IdleAlloc ==
    /\ apc = "idle"
    /\ words = <<>>
    /\ overlaps = <<>>
    /\ targets = <<>>
    /\ diff = 0
    /\ idx = 0
    /\ out = <<>>

IdleUtil ==
    /\ upc = "idle"
    /\ text = <<>>
    /\ cleaned = <<>>
    /\ ts = 0
    /\ srt = [h |-> 0, m |-> 0, s |-> 0, ms |-> 0]

\* allocate_words_by_overlaps called on its own, with any arguments
InitAlloc ==
    /\ IdlePipe
    /\ IdleUtil
    /\ apc = "enter"
    /\ words \in TokenLists
    /\ overlaps \in WeightLists
    /\ targets = <<>>
    /\ diff = 0
    /\ idx = 0
    /\ out = <<>>

SpecAlloc == InitAlloc /\ [][NextAlloc]_vars

\* The adjustment loop keeps running while it can: the interpreter does not
\* stop between two iterations
FairSpecAlloc == SpecAlloc /\ WF_vars(NextAlloc)

----------------------------------------------------------------------------
(* build_slots and build_srt_slots_from_segments *)

\* end = min(t + slot_sec, audio_duration_sec)
\* A plausible bug: the end is not clamped to the audio's end
slot_end_unclamped(start) == start + slot_sec

slot_end(start) == Min(start + slot_sec, audio_duration_sec)

\* Lines 140-143: one iteration of build_slots' loop
BuildSlotsLoop ==
    /\ pc = "build_slots"
    /\ t < audio_duration_sec - EPS
    /\ Len(slots) < MaxSlots
    /\ slots' = Append(slots, [start |-> t, end |-> slot_end(t), texts |-> <<>>])
    /\ t' = slot_end(t)
    /\ UNCHANGED <<pc, audio_duration_sec, slot_sec, seg_end_pad_sec,
                   untimed_texts, seg, nsegs, fed, slot_indices>>

\* Lines 144, 154-158: build_slots returns; without slots the assigner
\* returns at once, otherwise it starts on the fragments
BuildSlotsReturn ==
    /\ pc = "build_slots"
    /\ ~(t < audio_duration_sec - EPS)
    /\ pc' = IF slots = <<>> THEN "done" ELSE "segments"
    /\ untimed_texts' = <<>>
    /\ UNCHANGED <<audio_duration_sec, slot_sec, seg_end_pad_sec, slots, t,
                   seg, nsegs, fed, slot_indices>>

\* Lines 167-177: is the fragment buffered as untimed?  (`not ts`, a None
\* end point, or s1 <= s0 on the raw timestamps)
\* A plausible bug: the s1 <= s0 test is made after padding and clamping
is_untimed_after_pad(tsv) ==
    \/ tsv = None
    \/ tsv[1] = None
    \/ tsv[2] = None
    \/ Min(tsv[2][1] + seg_end_pad_sec, audio_duration_sec) <= tsv[1][1]

is_untimed(tsv) ==
    \/ tsv = None
    \/ tsv[1] = None
    \/ tsv[2] = None
    \/ tsv[2][1] <= tsv[1][1]

\* Line 180: s1 = min(s1 + seg_end_pad_sec, audio_duration_sec)
padded_end(tsv) == Min(tsv[2][1] + seg_end_pad_sec, audio_duration_sec)

\* Lines 183-186: the first and last slot index, 0-based as in the code
clamp_index(i) == Max(0, Min(i, Len(slots) - 1))
first_index(s0) == clamp_index(Max(0, s0) \div slot_sec)
last_index(s1) == clamp_index(Max(0, s1 - EPS) \div slot_sec)

\* list(range(i0, i1 + 1)), 0-based
index_range(i0, i1) == [k \in 1..Max(0, i1 - i0 + 1) |-> i0 + k - 1]

\* Lines 189-193: the overlap of [s0, s1) with each slot of the range
slot_overlaps(s0, s1, indices) ==
    [k \in 1..Len(indices) |->
        LET a == Max(s0, slots[indices[k] + 1].start)
            b == Min(s1, slots[indices[k] + 1].end)
        IN Max(0, b - a)]

\* Lines 198-200: every non-empty chunk is joined and appended to its slot;
\* zip stops at the shorter list
append_chunks(sl, indices, chunks) ==
    [i \in 1..Len(sl) |->
        IF \E k \in 1..Min(Len(indices), Len(chunks)) :
               indices[k] + 1 = i /\ chunks[k] # <<>>
        THEN LET k == CHOOSE k \in 1..Min(Len(indices), Len(chunks)) :
                          indices[k] + 1 = i
             IN [sl[i] EXCEPT !.texts = Append(@, join(chunks[k]))]
        ELSE sl[i]]

\* Lines 203-204: the buffered texts become one entry of the last slot
\* A plausible bug: the entry goes to the first slot
flush_untimed_first(sl, buffered) ==
    IF buffered = <<>> THEN sl
    ELSE [sl EXCEPT ![1].texts = Append(@, join(buffered))]

flush_untimed(sl, buffered) ==
    IF buffered = <<>> THEN sl
    ELSE [sl EXCEPT ![Len(sl)].texts = Append(@, join(buffered))]

RECURSIVE bag_of(_)
bag_of(tokens) ==
    IF tokens = <<>> THEN EmptyBag
    ELSE SetToBag({Head(tokens)}) (+) bag_of(Tail(tokens))

\* The fragments the transcription engine may hand over
Times == 0..MaxTime
Stamps == {None} \cup {Some(v) : v \in Times}
Timestamps == {None} \cup {<<a, b>> : a \in Stamps, b \in Stamps}
Texts == { <<" ">>,
           <<"a", " ", ",">>,
           <<"b", " ", " ", "c", "\t", "d">> }
Fragments == [timestamp : Timestamps, text : Texts]

NoSegment == [timestamp |-> None, text |-> <<>>]

\* Line 160: the loop takes the next fragment of `segments`
FetchSegment ==
    /\ pc = "segments"
    /\ nsegs < MaxSegs
    /\ \E fragment \in Fragments :
         /\ seg' = fragment
         /\ fed' = fed (+) bag_of(word_tokenize(clean_text(fragment.text)))
    /\ nsegs' = nsegs + 1
    /\ pc' = "segment"
    /\ UNCHANGED <<audio_duration_sec, slot_sec, seg_end_pad_sec, slots, t,
                   untimed_texts, slot_indices, allocVars, utilVars>>

\* Lines 161-196: the fragment is skipped when its cleaned text is empty,
\* buffered when untimed, otherwise padded, mapped to its slot range and
\* handed to allocate_words_by_overlaps.  `seg` is not read after its
\* iteration, so it is cleared when the iteration ends.
ProcessSegment ==
    /\ pc = "segment"
    /\ LET txt == clean_text(seg.text)
           tsv == seg.timestamp
       IN IF txt = <<>>
          THEN /\ pc' = "segments"
               /\ seg' = NoSegment
               /\ UNCHANGED <<untimed_texts, slot_indices, allocVars>>
          ELSE IF is_untimed(tsv)
          THEN /\ untimed_texts' = Append(untimed_texts, txt)
               /\ pc' = "segments"
               /\ seg' = NoSegment
               /\ UNCHANGED <<slot_indices, allocVars>>
          ELSE LET s0 == tsv[1][1]
                   s1 == padded_end(tsv)
                   indices == index_range(first_index(s0), last_index(s1))
               IN /\ slot_indices' = indices
                  /\ overlaps' = slot_overlaps(s0, s1, indices)
                  /\ words' = word_tokenize(txt)
                  /\ apc' = "enter"
                  /\ pc' = "allocate"
                  /\ UNCHANGED <<seg, untimed_texts, targets, diff, idx, out>>
    /\ UNCHANGED <<audio_duration_sec, slot_sec, seg_end_pad_sec, slots, t,
                   nsegs, fed, utilVars>>

\* Lines 196-200: allocate has returned; its chunks go to the slots, its
\* frame is gone and the iteration ends
AppendChunks ==
    /\ pc = "allocate"
    /\ apc = "return"
    /\ slots' = append_chunks(slots, slot_indices, out)
    /\ pc' = "segments"
    /\ seg' = NoSegment
    /\ slot_indices' = <<>>
    /\ apc' = "idle"
    /\ words' = <<>>
    /\ overlaps' = <<>>
    /\ targets' = <<>>
    /\ diff' = 0
    /\ idx' = 0
    /\ out' = <<>>
    /\ UNCHANGED <<audio_duration_sec, slot_sec, seg_end_pad_sec, t,
                   untimed_texts, nsegs, fed, utilVars>>

\* Lines 202-206: the fragments are exhausted; flush the buffer and return
EndSegments ==
    /\ pc = "segments"
    /\ slots' = flush_untimed(slots, untimed_texts)
    /\ pc' = "done"
    /\ UNCHANGED <<audio_duration_sec, slot_sec, seg_end_pad_sec, t,
                   untimed_texts, seg, nsegs, fed, slot_indices, allocVars, utilVars>>

\* build_srt_slots_from_segments is entered with any numbers: the code
\* checks none of them
Durations == (0 - 1)..MaxDur
SlotLengths == {0 - 1, 0, MaxSlotLen - 1, MaxSlotLen}
Paddings == {0, MaxPad}

Init ==
    /\ IdleAlloc
    /\ IdleUtil
    /\ pc = "build_slots"
    /\ audio_duration_sec \in Durations
    /\ slot_sec \in SlotLengths
    /\ seg_end_pad_sec \in Paddings
    /\ slots = <<>>
    /\ t = 0
    /\ untimed_texts = <<>>
    /\ seg = NoSegment
    /\ nsegs = 0
    /\ fed = EmptyBag
    /\ slot_indices = <<>>

Next ==
    \/ BuildSlotsLoop /\ UNCHANGED <<allocVars, utilVars>>
    \/ BuildSlotsReturn /\ UNCHANGED <<allocVars, utilVars>>
    \/ FetchSegment
    \/ ProcessSegment
    \/ AllocEnter /\ UNCHANGED <<pipeVars, utilVars>>
    \/ AllocAdjust /\ UNCHANGED <<pipeVars, utilVars>>
    \/ AllocSlice /\ UNCHANGED <<pipeVars, utilVars>>
    \/ AppendChunks
    \/ EndSegments

Spec == Init /\ [][Next]_vars

----------------------------------------------------------------------------
(* clean_text and seconds_to_srt, each called on its own *)

MS_PER_SEC == 1000
SEC_PER_MIN == 60
SEC_PER_HOUR == 3600

\* seconds_to_srt's time unit: ten ticks to the millisecond
TicksPerSec == 10 * MS_PER_SEC

\* Lines 33-39: the four fields of the timestamp.  ts // 3600, (ts % 3600)
\* // 60 and ts % 60 are floored, the fraction is rounded to milliseconds,
\* and 1000 ms carry into the seconds field only.
srt_fields(tv, ms) ==
    LET h == tv \div (SEC_PER_HOUR * TicksPerSec)
        m == (tv % (SEC_PER_HOUR * TicksPerSec)) \div (SEC_PER_MIN * TicksPerSec)
        s == (tv % (SEC_PER_MIN * TicksPerSec)) \div TicksPerSec
    IN IF ms = MS_PER_SEC
       THEN [h |-> h, m |-> m, s |-> s + 1, ms |-> 0]
       ELSE [h |-> h, m |-> m, s |-> s, ms |-> ms]

\* Line 36: ms = int(round((ts - int(ts)) * 1000))
srt_millis(tv) == round((tv % TicksPerSec) * MS_PER_SEC, TicksPerSec)

SecondsToSrt ==
    /\ upc = "seconds_to_srt"
    /\ \E ms \in srt_millis(ts) : srt' = srt_fields(ts, ms)
    /\ upc' = "formatted"
    /\ UNCHANGED <<text, cleaned, ts, pipeVars, allocVars>>

CleanText ==
    /\ upc = "clean_text"
    /\ cleaned' = clean_text(text)
    /\ upc' = "cleaned"
    /\ UNCHANGED <<text, ts, srt, pipeVars, allocVars>>

NextUtil ==
    \/ SecondsToSrt
    \/ CleanText

Alphabet == {" ", "\t", ",", "a"}
Strings == UNION {[1..n -> Alphabet] : n \in 0..MaxLen}

\* Times around every carry of the timestamp: the first and last seconds of
\* a minute, the first and last minutes of an hour, and fractions at both
\* ends of a second
SrtSeconds ==
    {h * SEC_PER_HOUR + m * SEC_PER_MIN + sec :
        h \in 0..MaxHours, m \in {0, 1, 59}, sec \in {0, 1, 58, 59}}
SrtFractions == {0, 4, 5, 6, 15, 4999, 9994, 9995, 9996, 9999}
SrtTimes == {sec * TicksPerSec + f : sec \in SrtSeconds, f \in SrtFractions}

InitUtil ==
    /\ IdlePipe
    /\ IdleAlloc
    /\ cleaned = <<>>
    /\ srt = [h |-> 0, m |-> 0, s |-> 0, ms |-> 0]
    /\ \/ upc = "clean_text" /\ text \in Strings /\ ts = 0
       \/ upc = "seconds_to_srt" /\ ts \in SrtTimes /\ text = <<>>

SpecUtil == InitUtil /\ [][NextUtil]_vars

----------------------------------------------------------------------------
(* Claims about allocate_words_by_overlaps (SpecAlloc, FairSpecAlloc) *)

RECURSIVE concat(_)
concat(chunks) == IF chunks = <<>> THEN <<>> ELSE Head(chunks) \o concat(Tail(chunks))

C7_AdjustTerminates ==
    (apc = "adjust") ~> (apc = "return" /\ diff = 0)

\* C7 witness: the loop is removing (the target sum is too large) while some
\* slot's target is 0.
C7_Witness ==
    /\ apc = "adjust"
    /\ diff < 0
    /\ sum(overlaps) > 0
    /\ \E i \in 1..Len(targets) : targets[i] = 0

\* C10: when the adjustment loop has ended every target is >= 0 and the
\* targets sum to len(words); every returned chunk, the last one included,
\* has exactly its target's length.
C10_TargetsExact ==
    /\ (apc = "adjust" /\ diff = 0) =>
           /\ \A i \in 1..Len(targets) : targets[i] >= 0
           /\ sum(targets) = Len(words)
    /\ (apc = "return" /\ targets # <<>>) =>
           /\ Len(out) = Len(targets)
           /\ \A i \in 1..Len(targets) : Len(out[i]) = targets[i]

\* C10 witness: a call returned through the loop after at least one
\* adjustment, and its last chunk is not empty.
C10_Witness ==
    /\ apc = "return"
    /\ targets # <<>>
    /\ idx > 0
    /\ Len(targets) >= 2
    /\ out[Len(out)] # <<>>

----------------------------------------------------------------------------
(* Claims about build_slots and build_srt_slots_from_segments (Spec) *)

RECURSIVE entry_tokens(_)
entry_tokens(texts) ==
    IF texts = <<>> THEN EmptyBag
    ELSE bag_of(word_tokenize(Head(texts))) (+) entry_tokens(Tail(texts))

RECURSIVE slot_tokens(_)
slot_tokens(sl) ==
    IF sl = <<>> THEN EmptyBag
    ELSE entry_tokens(Head(sl).texts) (+) slot_tokens(Tail(sl))

BothPresent(tsv) == tsv # None /\ tsv[1] # None /\ tsv[2] # None

\* C2 as stated: for totalDuration > 0, slotLength > 0 and endPad >= 0, when
\* the assigner has returned, the tokens in the slots are, with
\* multiplicity, the tokens of the fragments it was given.
C2_NoTokenLost ==
    (/\ pc = "done"
     /\ audio_duration_sec > 0
     /\ slot_sec > 0
     /\ seg_end_pad_sec >= 0)
        => slot_tokens(slots) = fed

built == pc \in {"segments", "segment", "allocate", "done"}

contiguous_from_zero ==
    /\ slots # <<>>
    /\ slots[1].start = 0
    /\ \A i \in 1..Len(slots) : slots[i].start < slots[i].end
    /\ \A i \in 2..Len(slots) : slots[i].start = slots[i - 1].end

\* C3 as stated: for totalDuration > 0 and slotLength > 0, build_slots
\* returns a non-empty contiguous list that starts at 0, every slot has
\* start < end, and the last slot ends at totalDuration exactly.
C3_CoverExactly ==
    (built /\ audio_duration_sec > 0 /\ slot_sec > 0) =>
        /\ contiguous_from_zero
        /\ slots[Len(slots)].end = audio_duration_sec

\* C3 amended: the same for totalDuration > 1e-6, with the last slot's end
\* at most totalDuration and at least totalDuration - 1e-6: it is
\* totalDuration when the last slot was clamped (its start plus slotLength
\* reaches totalDuration) and its start plus slotLength otherwise.  For
\* 0 < totalDuration <= 1e-6 the list is empty.
C3_CoverWithinEps ==
    /\ (built /\ audio_duration_sec > EPS /\ slot_sec > 0) =>
          /\ contiguous_from_zero
          /\ slots[Len(slots)].end <= audio_duration_sec
          /\ slots[Len(slots)].end >= audio_duration_sec - EPS
          /\ slots[Len(slots)].start + slot_sec >= audio_duration_sec
                => slots[Len(slots)].end = audio_duration_sec
          /\ slots[Len(slots)].start + slot_sec < audio_duration_sec
                => slots[Len(slots)].end = slots[Len(slots)].start + slot_sec
    /\ (built /\ audio_duration_sec > 0 /\ audio_duration_sec <= EPS /\ slot_sec > 0) =>
          slots = <<>>

\* C3 witness: several slots were built and the last one is the short one.
C3_Witness ==
    /\ pc = "segments"
    /\ Len(slots) >= 2
    /\ slots[Len(slots)].end - slots[Len(slots)].start < slot_sec
    /\ slots[Len(slots)].end = audio_duration_sec

\* The fragments C4 calls untimed: an end point is absent, or end <= start
C4_Untimed(tsv) == ~BothPresent(tsv) \/ tsv[2][1] <= tsv[1][1]

\* C4: processing an untimed fragment (non-empty cleaned text) changes no
\* slot and appends its cleaned text to the buffer, and no step that changes
\* the buffer changes a slot; when the fragments are exhausted the buffered
\* texts, joined in arrival order, become the last entry of the last slot
\* and no other slot changes.
C4_UntimedDeferred ==
    [][ /\ (/\ pc = "segment"
            /\ clean_text(seg.text) # <<>>
            /\ C4_Untimed(seg.timestamp))
               => /\ slots' = slots
                  /\ untimed_texts' = Append(untimed_texts, clean_text(seg.text))
                  /\ pc' = "segments"
        /\ untimed_texts' # untimed_texts => slots' = slots
        /\ (pc = "segments" /\ pc' = "done" /\ untimed_texts # <<>>)
               => /\ Len(slots') = Len(slots)
                  /\ \A i \in 1..(Len(slots) - 1) : slots'[i] = slots[i]
                  /\ slots'[Len(slots)].texts =
                        Append(slots[Len(slots)].texts, join(untimed_texts))
        /\ (pc = "segments" /\ pc' = "done" /\ untimed_texts = <<>>)
               => slots' = slots
      ]_vars

\* C4 witness: the run is over, an untimed fragment with several tokens was
\* buffered, and the last of several slots holds a timed chunk followed by
\* the buffered text.
C4_Witness ==
    /\ pc = "done"
    /\ Len(slots) >= 2
    /\ untimed_texts # <<>>
    /\ Len(word_tokenize(untimed_texts[1])) >= 2
    /\ Len(slots[Len(slots)].texts) >= 2
    /\ slots[Len(slots)].texts[Len(slots[Len(slots)].texts)] = join(untimed_texts)

\* C5 as stated: with a negative duration or a slot length <= 0 the core
\* builds no slot and never returns normally (it has failed instead).
C5_FailsFast ==
    (audio_duration_sec < 0 \/ slot_sec <= 0) =>
        (pc # "done" /\ slots = <<>>)

\* The fragments C8 is about: both timestamps present, and the end, padded
\* and clamped to the audio's end, is <= the start
C8_InvertedAfterPad(tsv) ==
    /\ BothPresent(tsv)
    /\ Min(tsv[2][1] + seg_end_pad_sec, audio_duration_sec) <= tsv[1][1]

\* C8 as stated: such a fragment (non-empty cleaned text) is buffered as
\* untimed and changes no slot when it is processed.
C8_InvertedIsBuffered ==
    [][ (/\ pc = "segment"
         /\ clean_text(seg.text) # <<>>
         /\ C8_InvertedAfterPad(seg.timestamp))
            => /\ untimed_texts' = Append(untimed_texts, clean_text(seg.text))
               /\ slots' = slots
               /\ pc' = "segments"
      ]_vars

\* C8 amended: the end <= start test is made on the raw timestamps.  Such a
\* fragment with raw end > start takes the timed path: the buffer is left
\* alone, its slot range is the last slot alone with weight 0, and its whole
\* cleaned text becomes an entry of the last slot at once, when it is
\* processed.  With raw end <= start it is buffered.
C8_InvertedRawDecides ==
    [][ /\ (/\ pc = "segment"
            /\ clean_text(seg.text) # <<>>
            /\ C8_InvertedAfterPad(seg.timestamp)
            /\ seg.timestamp[2][1] > seg.timestamp[1][1])
               => /\ pc' = "allocate"
                  /\ untimed_texts' = untimed_texts
                  /\ slots' = slots
                  /\ slot_indices' = <<Len(slots) - 1>>
                  /\ overlaps' = <<0>>
        /\ (/\ pc = "allocate"
            /\ pc' = "segments"
            /\ C8_InvertedAfterPad(seg.timestamp))
               => /\ untimed_texts' = untimed_texts
                  /\ slots' = [slots EXCEPT ![Len(slots)].texts =
                                   Append(@, clean_text(seg.text))]
        /\ (/\ pc = "segment"
            /\ clean_text(seg.text) # <<>>
            /\ C8_InvertedAfterPad(seg.timestamp)
            /\ seg.timestamp[2][1] <= seg.timestamp[1][1])
               => /\ untimed_texts' = Append(untimed_texts, clean_text(seg.text))
                  /\ slots' = slots
                  /\ pc' = "segments"
      ]_vars

\* C8 witness: a fragment that starts at or after the audio's end, with raw
\* end > start and several tokens, is about to be appended to the last of
\* several slots, while an untimed text is already buffered.
C8_Witness ==
    /\ pc = "allocate"
    /\ apc = "return"
    /\ C8_InvertedAfterPad(seg.timestamp)
    /\ seg.timestamp[2][1] > seg.timestamp[1][1]
    /\ Len(words) >= 2
    /\ Len(slots) >= 2
    /\ untimed_texts # <<>>

----------------------------------------------------------------------------
(* Claims about clean_text and seconds_to_srt (SpecUtil) *)

\* C6: clean_text is idempotent: cleaning a cleaned string changes nothing.
C6_CleanIdempotent ==
    upc = "cleaned" => clean_text(cleaned) = cleaned

\* C6 witness: all three steps did something: the input had outer
\* whitespace and whitespace before a mark, and the result is not empty.
C6_Witness ==
    /\ upc = "cleaned"
    /\ text # <<>>
    /\ text[1] \in Whitespace
    /\ Len(cleaned) >= 2
    /\ \E i \in 2..(Len(text) - 1) :
           /\ text[i - 1] \notin Whitespace
           /\ text[i] \in Whitespace
           /\ text[i + 1] \in Punctuation

\* C9 as stated: every formatted timestamp has minutes and seconds in 0..59
\* and milliseconds in 0..999.
C9_FieldsInRange ==
    upc = "formatted" =>
        /\ srt.h >= 0
        /\ srt.m \in 0..59
        /\ srt.s \in 0..59
        /\ srt.ms \in 0..999

====
